---- MODULE Spec2Model ----
(***************************************************************************)
(* Model of the pg-migrations reconciliation engine (strict variant):      *)
(*   src/src/migration/pgMigrationClient.ts  PgMigrationClient             *)
(*   src/src/fs/fsClient.ts                  FsClient (script locator)     *)
(*   src/unnamed/part_002                    DatabaseClient (gateway)      *)
(* The database, the connection pool and the filesystem are the            *)
(* environment: every call into them may fail nondeterministically.        *)
(* A step of the model is the code between two awaits on I/O.              *)
(***************************************************************************)
EXTENDS Integers, Sequences, FiniteSets, TLC

(***************************** bounds **************************************)
\* handler invocations (init / startMigration) of one process since it started
MaxCalls == 3
\* filesystem changes made by the operator between runs
MaxFsOps == 1

\* files in a directory that holds ill-formed names
MaxOddFiles == 3
\* deaths of one engine process
MaxCrashes == 1

Procs == {1, 2}

(***************************** filenames and bodies ************************)
\* A filename is the sequence of its characters, a body the sequence of its
\* leading tokens; both are what the string functions of the code inspect.
F1  == <<"1", "_", "a">>
F2  == <<"2", "_", "b">>
F3  == <<"3", "-", "c">>
F2x == <<"2", "-", "x">>
FileNames == {F1, F2, F3, F2x}

\* names whose prefix is not an integer, or that have no delimiter
F1x  == <<"1", "x", "_", "q">>
Fabc == <<"a", "_", "y">>
Fnd  == <<"3", "c">>
OddNames == {F1x, Fabc, Fnd}
AllNames == FileNames \cup OddNames

AUTOCOMMIT == "--AUTOCOMMIT"
Absent == <<"<absent>">>
BodyTx   == <<"create">>
BodyAuto == <<AUTOCOMMIT, "index">>
BodyEdit == <<"create", "edited">>
Bodies == {BodyTx, BodyAuto, BodyEdit}

\* the body a file is first written with
DefaultBody(f) == IF f = F2 THEN BodyAuto ELSE BodyTx

\* JavaScript values that are not numbers or strings
NaN  == -1
NULL == <<>>

(***************************** FsClient ************************************)
IsDigit(c) == c \in {"0", "1", "2", "3", "4", "5", "6", "7", "8", "9"}

DigitVal(c) ==
  CASE c = "0" -> 0 [] c = "1" -> 1 [] c = "2" -> 2 [] c = "3" -> 3
    [] c = "4" -> 4 [] c = "5" -> 5 [] c = "6" -> 6 [] c = "7" -> 7
    [] c = "8" -> 8 [] c = "9" -> 9

\* filename.search('[_-]'): 0-based index of the first '_' or '-', -1 if none
DelimiterIndex(fn) ==
  LET hits == {i \in 1..Len(fn) : fn[i] \in {"_", "-"}}
  IN  IF hits = {} THEN -1
      ELSE (CHOOSE i \in hits : \A j \in hits : i <= j) - 1

\* Number.parseInt(s): an optional '+', then the longest run of digits;
\* NaN when that run is empty.  It never throws.
RECURSIVE DigitsValue(_, _)
DigitsValue(s, acc) ==
  IF s = <<>> \/ ~IsDigit(Head(s)) THEN acc
  ELSE DigitsValue(Tail(s), acc * 10 + DigitVal(Head(s)))

ParseInt(s) ==
  LET t == IF s # <<>> /\ Head(s) = "+" THEN Tail(s) ELSE s
  IN  IF t = <<>> \/ ~IsDigit(Head(t)) THEN NaN ELSE DigitsValue(t, 0)

\* crypto.createHash('md5').update(filename).update(data): the digest of the
\* concatenation, taken to be injective on it
Hash(fn, data) == fn \o data

\* createMigrationItem throws when the delimiter is missing or at index 0
FilenameInvalid(fn) == DelimiterIndex(fn) < 1

CreateMigrationItem(fn, data) ==
  [id       |-> ParseInt(SubSeq(fn, 1, DelimiterIndex(fn))),
   filename |-> fn,
   data     |-> data,
   hash     |-> Hash(fn, data)]

(***************************** getMigrationsScripts ************************)
\* the comparator of migrationScripts.sort: left.id - right.id, where a NaN
\* result counts as 0
Compare(l, r) == IF l.id = NaN \/ r.id = NaN THEN 0 ELSE l.id - r.id

\* x placed after every element that does not compare greater (stable)
RECURSIVE InsertSorted(_, _)
InsertSorted(s, x) ==
  IF s = <<>> THEN <<x>>
  ELSE IF Compare(s[Len(s)], x) <= 0 THEN Append(s, x)
  ELSE Append(InsertSorted(SubSeq(s, 1, Len(s) - 1), x), s[Len(s)])

RECURSIVE SortFrom(_, _)
SortFrom(done, rest) ==
  IF rest = <<>> THEN done
  ELSE SortFrom(InsertSorted(done, Head(rest)), Tail(rest))

\* faulty variant of SortById: the scripts stay in directory order
SortByIdUnsorted(s) == s

\* Array.prototype.sort by id, a stable sort
SortById(s) == SortFrom(<<>>, s)

\* a - b === 1 on JavaScript numbers: false as soon as one side is NaN
DiffIsOne(a, b) == a # NaN /\ b # NaN /\ a - b = 1

\* faulty variant of SequenceBroken: the pairwise check is skipped
SequenceBrokenNever(s) == FALSE

\* the forEach of getMigrationsScripts throws for a script whose id is not
\* the previous script's id plus one (the first script has no predecessor)
SequenceBroken(s) == \E i \in 2..Len(s) : ~DiffIsOne(s[i].id, s[i - 1].id)

(***************************** tracking table ******************************)
SentinelName == <<"PgMigrationClient initialized">>
Sentinel == [id |-> 0, filename |-> SentinelName, hash |-> NULL]

\* SELECT * FROM migrations ORDER BY id (id is the primary key)
RECURSIVE SelectAll(_)
SelectAll(tbl) ==
  IF tbl = {} THEN <<>>
  ELSE LET r == CHOOSE x \in tbl : \A y \in tbl : x.id <= y.id
       IN  <<r>> \o SelectAll(tbl \ {r})

\* faulty variant of CanInsert: the table has no UNIQUE (filename)
CanInsertPrimaryKeyOnly(tbl, id, fn) == \A r \in tbl : r.id # id

\* faulty variant of UpdateHashRows: the UPDATE has no WHERE clause
UpdateHashRowsAll(tbl, h, fn) == {[r EXCEPT !.hash = h] : r \in tbl}

\* PRIMARY KEY (id) and UNIQUE (filename)
CanInsert(tbl, id, fn) == \A r \in tbl : r.id # id /\ r.filename # fn

\* UPDATE migrations SET hash = $1 WHERE filename = $2
UpdateHashRows(tbl, h, fn) ==
  {IF r.filename = fn THEN [r EXCEPT !.hash = h] ELSE r : r \in tbl}

NoEntry == [id |-> -2, filename |-> <<>>, hash |-> NULL]

\* faulty variant of FindEntry: the filename is compared with the wrong field
FindEntryByBody(entries, script) ==
  LET hits == {i \in 1..Len(entries) : entries[i].filename = script.data}
  IN  IF hits = {} THEN NoEntry
      ELSE entries[CHOOSE i \in hits : \A j \in hits : i <= j]

\* migrationEntries.find(entry => entry.filename === migrationScript.filename)
FindEntry(entries, script) ==
  LET hits == {i \in 1..Len(entries) : entries[i].filename = script.filename}
  IN  IF hits = {} THEN NoEntry
      ELSE entries[CHOOSE i \in hits : \A j \in hits : i <= j]

\* faulty variant of ScriptIdInvalid: any id is accepted
ScriptIdInvalidNever(script, lastMigrationEntryId) == FALSE

\* validateScriptId throws unless script.id - lastMigrationEntryId === 1
ScriptIdInvalid(script, lastMigrationEntryId) ==
  ~DiffIsOne(script.id, lastMigrationEntryId)

\* faulty variant of HashModified: a changed script is accepted
HashModifiedNever(entryHash, scriptHash) == FALSE

\* updateScriptHash throws for a stored, different fingerprint
HashModified(entryHash, scriptHash) ==
  entryHash # NULL /\ entryHash # scriptHash

\* faulty variant of UseAutocommit: the marker is never seen
UseAutocommitNever(data) == FALSE

\* data.startsWith('--AUTOCOMMIT')
UseAutocommit(data) == data # <<>> /\ data[1] = AUTOCOMMIT

\* faulty variant of NotInitialised: the guard never throws
NotInitialisedNever(initialized) == FALSE

\* checkClientInitialisation throws when the engine is not initialized
NotInitialised(initialized) == ~initialized

\* faulty variant of EntryThrows: the record is inserted whatever the result
EntryThrowsNever(isSuccess) == FALSE

\* addMigrationEntry throws when the migration result is a failure
EntryThrows(isSuccess) == ~isSuccess

\* faulty variant of Release: the connection is kept
ReleaseLeak(client) == client

\* finally { client.release() }
Release(client) == "none"

(***************************** state ***************************************)
VARIABLES
  dir,          \* the migrations directory: filename -> body, or Absent
  fsOps,        \* filesystem changes made so far
  tableExists,  \* pg_tables holds 'migrations'
  table,        \* the rows of migrations
  serial,       \* next value of the BIGSERIAL sequence of migrations.id
  effects,      \* committed executions of each script body in the database
  eng,          \* per process: the PgMigrationClient and its running handler
  run,          \* per process: what the current (or last) handlers have done
  calls         \* per process: handler invocations since it started

vars == <<dir, fsOps, tableExists, table, serial, effects, eng, run, calls>>

NoEffects == [f \in AllNames |-> 0]

EngInit ==
  [pc          |-> "idle",
   initialized |-> FALSE,   \* private initialized = false
   scripts     |-> <<>>,    \* migrationScripts, sorted
   entries     |-> <<>>,    \* migrationEntries
   idx         |-> 0,       \* position of the for..of loop of doMigration
   lastId      |-> 0,       \* lastMigrationEntryId
   missed      |-> 0,       \* missedMigrationScripts.length
   client      |-> "none"]  \* the connection held by executeInTransaction

RunInit ==
  [outcome        |-> "none",  \* how the last startMigration ended
   initFail       |-> "none",  \* the statement that failed in the last init()
   readyAtStart   |-> FALSE,   \* initialized when startMigration was called
   dirRead        |-> FALSE,   \* the directory was read
   histLoaded     |-> FALSE,   \* the history was queried
   tableAtStart   |-> {},      \* table when startMigration was called
   effectsAtStart |-> NoEffects,
   execLog        |-> <<>>,    \* filenames whose body the database executed
   ioFail         |-> FALSE,   \* some filesystem or gateway call failed
   raised         |-> FALSE,   \* a gateway call raised instead of returning
   txFailed       |-> {},      \* scripts whose executeInTransaction failed
   failed         |-> {},      \* scripts whose execution the gateway failed
   propagated     |-> FALSE,   \* a handler raised to its caller
   crashes        |-> 0,       \* times the process has died
   unrecorded     |-> {}]      \* the script that was committed and not yet
                               \* recorded when the process last died

Present == {f \in AllNames : dir[f] # Absent}

\* the orders in which readdir may list a set of files
Orders(S) ==
  {o \in [1..Cardinality(S) -> S] : \A i, j \in 1..Cardinality(S) : o[i] = o[j] => i = j}

\* what migrationScripts.sort may leave: the stable sort by id, or, when an
\* id is NaN and the comparator therefore inconsistent, any order (the order
\* is then implementation-defined)
SortOutcomes(items) ==
  IF \E i \in 1..Len(items) : items[i].id = NaN
    THEN {[i \in 1..Len(items) |-> items[o[i]]] : o \in Orders(1..Len(items))}
    ELSE {SortById(items)}

DirOf(S) == [f \in AllNames |-> IF f \in S THEN DefaultBody(f) ELSE Absent]

InitDirs == {DirOf(S) : S \in SUBSET FileNames}

\* a database that an earlier version of the engine migrated: F1 is recorded
\* without a fingerprint
LegacyTable == {Sentinel, [id |-> 1, filename |-> F1, hash |-> NULL]}

Init ==
  /\ dir \in InitDirs
  /\ fsOps = 0
  /\ \/ /\ tableExists = FALSE
        /\ table = {}
        /\ serial = 1
        /\ effects = NoEffects
     \/ /\ tableExists = TRUE
        /\ table = LegacyTable
        /\ serial = 2
        /\ effects = [NoEffects EXCEPT ![F1] = 1]
  /\ eng = [p \in Procs |-> EngInit]
  /\ run = [p \in Procs |-> RunInit]
  /\ calls = [p \in Procs |-> 0]

\* directories that also hold names the filename pattern does not allow
OddDirs ==
  {DirOf(S) : S \in {T \in SUBSET {F1, F2, F1x, Fabc, Fnd} : Cardinality(T) <= MaxOddFiles}}

InitOdd ==
  /\ dir \in OddDirs
  /\ fsOps = 0
  /\ \/ /\ tableExists = FALSE
        /\ table = {}
        /\ serial = 1
        /\ effects = NoEffects
     \/ /\ tableExists = TRUE
        /\ table = LegacyTable
        /\ serial = 2
        /\ effects = [NoEffects EXCEPT ![F1] = 1]
  /\ eng = [p \in Procs |-> EngInit]
  /\ run = [p \in Procs |-> RunInit]
  /\ calls = [p \in Procs |-> 0]

Idle(p) == eng[p].pc = "idle"

(***************************** the operator's filesystem *******************)
EditFile(f) ==
  /\ \A p \in Procs : Idle(p)
  /\ fsOps < MaxFsOps
  /\ dir[f] # Absent
  /\ dir' = [dir EXCEPT ![f] = IF @ = BodyEdit THEN DefaultBody(f) ELSE BodyEdit]
  /\ fsOps' = fsOps + 1
  /\ UNCHANGED <<tableExists, table, serial, effects, eng, run, calls>>

AddFile(f) ==
  /\ \A p \in Procs : Idle(p)
  /\ fsOps < MaxFsOps
  /\ dir[f] = Absent
  /\ dir' = [dir EXCEPT ![f] = DefaultBody(f)]
  /\ fsOps' = fsOps + 1
  /\ UNCHANGED <<tableExists, table, serial, effects, eng, run, calls>>

RemoveFile(f) ==
  /\ \A p \in Procs : Idle(p)
  /\ fsOps < MaxFsOps
  /\ dir[f] # Absent
  /\ dir' = [dir EXCEPT ![f] = Absent]
  /\ fsOps' = fsOps + 1
  /\ UNCHANGED <<tableExists, table, serial, effects, eng, run, calls>>

(***************************** init() **************************************)
\* faulty variant of Propagates: the catch block rethrows what it logged
PropagatesRethrow(why) == why # "ok"

\* the try blocks of init and startMigration enclose the whole body and
\* their catch blocks only log: no error leaves the handler
Propagates(why) == FALSE

\* the catch of init: the error is logged, initialized = false
InitCatch(e, r, what) ==
  <<[e EXCEPT !.pc = "idle", !.initialized = FALSE],
    [r EXCEPT !.initFail = what, !.propagated = Propagates(what)]>>

Set(p, e, r) ==
  /\ eng' = [eng EXCEPT ![p] = e]
  /\ run' = [run EXCEPT ![p] = r]

\* doExecuteQuery(MIGRATIONS_TABLE_EXISTS), and the return when it exists
InitCheckTable(p) ==
  /\ Idle(p)
  /\ calls[p] < MaxCalls
  /\ calls' = [calls EXCEPT ![p] = @ + 1]
  /\ \E ok \in BOOLEAN :
       LET e == eng[p]
           r == [RunInit EXCEPT !.crashes = run[p].crashes,
                                !.unrecorded = run[p].unrecorded]
       IN  IF ~ok
             THEN Set(p, InitCatch(e, r, "exists")[1], InitCatch(e, r, "exists")[2])
           ELSE IF tableExists
             THEN Set(p, [e EXCEPT !.initialized = TRUE], r)
           ELSE Set(p, [e EXCEPT !.pc = "init_create"], r)
  /\ UNCHANGED <<dir, fsOps, tableExists, table, serial, effects>>

\* doExecuteQuery(CREATE_MIGRATIONS_TABLE): a failure is thrown and caught
InitCreateTable(p) ==
  /\ eng[p].pc = "init_create"
  /\ \E ok \in BOOLEAN :
       IF ok /\ ~tableExists
         THEN /\ tableExists' = TRUE
              /\ table' = {}
              /\ serial' = 1
              /\ Set(p, [eng[p] EXCEPT !.pc = "init_sentinel"], run[p])
         ELSE /\ Set(p, InitCatch(eng[p], run[p], "create")[1],
                        InitCatch(eng[p], run[p], "create")[2])
              /\ UNCHANGED <<tableExists, table, serial>>
  /\ UNCHANGED <<dir, fsOps, effects, calls>>

\* databaseClient.execute(INSERT_MIGRATION_INIT_QUERY): the result is not
\* looked at, initialized becomes true either way
InitInsertSentinel(p) ==
  /\ eng[p].pc = "init_sentinel"
  /\ \E ok \in BOOLEAN :
       IF ok /\ tableExists /\ CanInsert(table, 0, SentinelName)
         THEN /\ table' = table \cup {Sentinel}
              /\ Set(p, [eng[p] EXCEPT !.pc = "idle", !.initialized = TRUE], run[p])
         ELSE /\ table' = table
              /\ Set(p, [eng[p] EXCEPT !.pc = "idle", !.initialized = TRUE],
                        [run[p] EXCEPT !.initFail = "sentinel"])
  /\ UNCHANGED <<dir, fsOps, tableExists, serial, effects, calls>>

(***************************** startMigration() ****************************)
\* the catch of startMigration: the error is logged, the handler returns
Abort(e, r, why) ==
  <<[e EXCEPT !.pc = "idle"],
    [r EXCEPT !.outcome = why, !.propagated = Propagates(why)]>>

\* the end of one pass of the for..of loop of doMigration
Advance(e, r) ==
  IF e.idx = Len(e.scripts)
    THEN <<[e EXCEPT !.pc = "idle"], [r EXCEPT !.outcome = "ok"]>>
    ELSE <<[e EXCEPT !.pc = "loop", !.idx = @ + 1], r>>

SetPair(p, er) == Set(p, er[1], er[2])

\* checkClientInitialisation, then getMigrationsScripts: findMigrationScripts
\* (readdir, then createMigrationItem per file), sort, sequence check
StartMigration(p) ==
  /\ Idle(p)
  /\ calls[p] < MaxCalls
  /\ calls' = [calls EXCEPT ![p] = @ + 1]
  /\ \E order \in Orders(Present), ioOk \in BOOLEAN :
     \E sorted \in SortOutcomes([i \in 1..Len(order) |->
                                   CreateMigrationItem(order[i], dir[order[i]])]) :
       LET e == [eng[p] EXCEPT !.scripts = <<>>, !.entries = <<>>, !.idx = 0,
                               !.lastId = 0, !.missed = 0]
           r == [RunInit EXCEPT !.initFail = run[p].initFail,
                                !.crashes = run[p].crashes,
                                !.unrecorded = run[p].unrecorded,
                                !.outcome = "running",
                                !.readyAtStart = eng[p].initialized,
                                !.tableAtStart = table,
                                !.effectsAtStart = effects]
           rd == [r EXCEPT !.dirRead = TRUE]
       IN  IF NotInitialised(eng[p].initialized)
             THEN SetPair(p, Abort(e, r, "NotInitialized"))
           ELSE IF ~ioOk
             THEN SetPair(p, Abort(e, [rd EXCEPT !.ioFail = TRUE], "DiscoveryFailed"))
           ELSE IF \E i \in 1..Len(order) : FilenameInvalid(order[i])
             THEN SetPair(p, Abort(e, rd, "MalformedFilename"))
           ELSE IF SequenceBroken(sorted)
             THEN SetPair(p, Abort([e EXCEPT !.scripts = sorted], rd, "SequenceGap"))
           ELSE IF Len(sorted) = 0
             THEN SetPair(p, Abort(e, rd, "ok"))
           ELSE Set(p, [e EXCEPT !.scripts = sorted, !.pc = "load"], rd)
  /\ UNCHANGED <<dir, fsOps, tableExists, table, serial, effects>>

\* getPersistedMigrations, then migrationEntries[length - 1].id, which throws
\* a TypeError on an empty result
LoadHistory(p) ==
  /\ eng[p].pc = "load"
  /\ \E ok \in BOOLEAN :
       LET e == eng[p]
           r == [run[p] EXCEPT !.histLoaded = TRUE]
           rows == SelectAll(table)
       IN  IF ~ok \/ ~tableExists
             THEN SetPair(p, Abort(e, [r EXCEPT !.ioFail = TRUE], "HistoryFailed"))
           ELSE IF rows = <<>>
             THEN SetPair(p, Abort([e EXCEPT !.entries = rows], r, "TypeError"))
           ELSE Set(p, [e EXCEPT !.entries = rows, !.lastId = rows[Len(rows)].id,
                                 !.idx = 1, !.pc = "loop"], r)
  /\ UNCHANGED <<dir, fsOps, tableExists, table, serial, effects, calls>>

CurrentScript(p) == eng[p].scripts[eng[p].idx]

\* one pass of the loop up to its first gateway call: find the entry, then
\* validateScriptId and the choice of the execution path, or updateScriptHash
NextScript(p) ==
  /\ eng[p].pc = "loop"
  /\ LET e == eng[p]
         r == run[p]
         script == CurrentScript(p)
         entry == FindEntry(e.entries, script)
     IN  IF entry = NoEntry
           THEN LET em == [e EXCEPT !.missed = @ + 1]
                IN  IF ScriptIdInvalid(script, e.lastId)
                      THEN SetPair(p, Abort(em, r, "SequenceGap"))
                    ELSE IF UseAutocommit(script.data)
                      THEN Set(p, [em EXCEPT !.pc = "exec_auto"], r)
                    ELSE Set(p, [em EXCEPT !.pc = "tx_connect"], r)
         ELSE IF entry.hash = NULL
           THEN Set(p, [e EXCEPT !.pc = "update_hash"], r)
         ELSE IF HashModified(entry.hash, script.hash)
           THEN SetPair(p, Abort(e, r, "Modified"))
         ELSE SetPair(p, Advance(e, r))
  /\ UNCHANGED <<dir, fsOps, tableExists, table, serial, effects, calls>>

(***************************** executeMigrationScript **********************)
Executed(r, f) == [r EXCEPT !.execLog = Append(@, f)]
Bump(fx, f) == [fx EXCEPT ![f] = @ + 1]

\* databaseClient.execute(data) for an autocommit script, then
\* addMigrationEntry's check of the result
ExecAutocommit(p) ==
  /\ eng[p].pc = "exec_auto"
  /\ \E ok \in BOOLEAN :
       LET e == eng[p]
           f == CurrentScript(p).filename
           r == IF ok THEN Executed(run[p], f)
                ELSE [run[p] EXCEPT !.ioFail = TRUE, !.failed = @ \cup {f}]
       IN  /\ effects' = IF ok THEN Bump(effects, f) ELSE effects
           /\ IF EntryThrows(ok)
                THEN SetPair(p, Abort(e, r, "ExecFailed"))
                ELSE Set(p, [e EXCEPT !.pc = "add_entry"], r)
  /\ UNCHANGED <<dir, fsOps, tableExists, table, serial, calls>>

\* executeInTransaction: pool.connect(), outside the try block, so that a
\* failure to connect is raised to executeMigrationScript
TxConnect(p) ==
  /\ eng[p].pc = "tx_connect"
  /\ \E ok \in BOOLEAN :
       IF ok
         THEN Set(p, [eng[p] EXCEPT !.pc = "tx_begin", !.client = "held"], run[p])
         ELSE SetPair(p, Abort(eng[p],
                [run[p] EXCEPT !.ioFail = TRUE, !.raised = TRUE,
                               !.failed = @ \cup {CurrentScript(p).filename}],
                "ExecFailed"))
  /\ UNCHANGED <<dir, fsOps, tableExists, table, serial, effects, calls>>

\* client.query('START TRANSACTION')
TxBegin(p) ==
  /\ eng[p].pc = "tx_begin"
  /\ \E ok \in BOOLEAN :
       IF ok
         THEN Set(p, [eng[p] EXCEPT !.pc = "tx_stmt"], run[p])
         ELSE Set(p, [eng[p] EXCEPT !.pc = "tx_rollback"],
                     [run[p] EXCEPT !.ioFail = TRUE,
                                    !.txFailed = @ \cup {CurrentScript(p).filename},
                                    !.failed = @ \cup {CurrentScript(p).filename}])
  /\ UNCHANGED <<dir, fsOps, tableExists, table, serial, effects, calls>>

\* client.query(statement): its effects stay inside the open transaction
TxStatement(p) ==
  /\ eng[p].pc = "tx_stmt"
  /\ \E ok \in BOOLEAN :
       LET f == CurrentScript(p).filename
       IN  IF ok
             THEN Set(p, [eng[p] EXCEPT !.pc = "tx_commit"], Executed(run[p], f))
             ELSE Set(p, [eng[p] EXCEPT !.pc = "tx_rollback"],
                         [run[p] EXCEPT !.ioFail = TRUE, !.txFailed = @ \cup {f},
                                    !.failed = @ \cup {f}])
  /\ UNCHANGED <<dir, fsOps, tableExists, table, serial, effects, calls>>

\* client.query('COMMIT'); on success the finally block releases the
\* connection and addMigrationEntry sees a success.  A COMMIT that fails has
\* committed nothing.
TxCommit(p) ==
  /\ eng[p].pc = "tx_commit"
  /\ \E ok \in BOOLEAN :
       LET e == eng[p]
           f == CurrentScript(p).filename
       IN  IF ok
             THEN /\ effects' = Bump(effects, f)
                  /\ LET er == [e EXCEPT !.client = Release(@)]
                     IN  IF EntryThrows(TRUE)
                           THEN SetPair(p, Abort(er, run[p], "ExecFailed"))
                           ELSE Set(p, [er EXCEPT !.pc = "add_entry"], run[p])
             ELSE /\ effects' = effects
                  /\ Set(p, [e EXCEPT !.pc = "tx_rollback"],
                            [run[p] EXCEPT !.ioFail = TRUE, !.txFailed = @ \cup {f},
                                    !.failed = @ \cup {f}])
  /\ UNCHANGED <<dir, fsOps, tableExists, table, serial, calls>>

\* the catch block: client.query('ROLLBACK'), which is itself awaited
\* unguarded: when it fails the error leaves executeInTransaction.  Either
\* way the finally block releases the connection; a returned failure makes
\* addMigrationEntry throw.
TxRollback(p) ==
  /\ eng[p].pc = "tx_rollback"
  /\ \E ok \in BOOLEAN :
       LET er == [eng[p] EXCEPT !.client = Release(@)]
       IN  IF ~ok
             THEN SetPair(p, Abort(er, [run[p] EXCEPT !.ioFail = TRUE, !.raised = TRUE],
                                   "ExecFailed"))
           ELSE IF EntryThrows(FALSE)
             THEN SetPair(p, Abort(er, run[p], "ExecFailed"))
           ELSE Set(p, [er EXCEPT !.pc = "add_entry"], run[p])
  /\ UNCHANGED <<dir, fsOps, tableExists, table, serial, effects, calls>>

\* databaseClient.execute(INSERT_MIGRATION_QUERY, [filename, hash]): the id
\* is the next value of the sequence, which a rejected insert consumes too.
\* The result is not looked at; then lastMigrationEntryId = migrationScript.id
AddMigrationEntry(p) ==
  /\ eng[p].pc = "add_entry"
  /\ \E ok \in BOOLEAN :
       LET e == [eng[p] EXCEPT !.lastId = CurrentScript(p).id]
           s == CurrentScript(p)
           row == [id |-> serial, filename |-> s.filename, hash |-> s.hash]
       IN  IF ok /\ tableExists
             THEN /\ serial' = serial + 1
                  /\ IF CanInsert(table, serial, s.filename)
                       THEN /\ table' = table \cup {row}
                            /\ SetPair(p, Advance(e, run[p]))
                       ELSE /\ table' = table
                            /\ SetPair(p, Advance(e, [run[p] EXCEPT !.ioFail = TRUE]))
             ELSE /\ UNCHANGED <<serial, table>>
                  /\ SetPair(p, Advance(e, [run[p] EXCEPT !.ioFail = TRUE]))
  /\ UNCHANGED <<dir, fsOps, tableExists, effects, calls>>

\* updateScriptHash for a record without fingerprint:
\* databaseClient.execute(UPDATE_MIGRATION_ROW_HASH), result not looked at
UpdateHash(p) ==
  /\ eng[p].pc = "update_hash"
  /\ \E ok \in BOOLEAN :
       LET s == CurrentScript(p)
       IN  IF ok /\ tableExists
             THEN /\ table' = UpdateHashRows(table, s.hash, s.filename)
                  /\ SetPair(p, Advance(eng[p], run[p]))
             ELSE /\ table' = table
                  /\ SetPair(p, Advance(eng[p], [run[p] EXCEPT !.ioFail = TRUE]))
  /\ UNCHANGED <<dir, fsOps, tableExists, serial, effects, calls>>

(***************************** specification *******************************)
Handler(p) ==
  \/ InitCheckTable(p)
  \/ InitCreateTable(p)
  \/ InitInsertSentinel(p)
  \/ StartMigration(p)
  \/ LoadHistory(p)
  \/ NextScript(p)
  \/ ExecAutocommit(p)
  \/ TxConnect(p)
  \/ TxBegin(p)
  \/ TxStatement(p)
  \/ TxCommit(p)
  \/ TxRollback(p)
  \/ AddMigrationEntry(p)
  \/ UpdateHash(p)

Operator ==
  \E f \in FileNames : EditFile(f) \/ AddFile(f) \/ RemoveFile(f)

\* one engine process, as in src/index.ts
Next == Handler(1) \/ Operator

Spec == Init /\ [][Next]_vars

\* the same engine over directories with ill-formed names
SpecOdd == InitOdd /\ [][Next]_vars

\* The process dies between two awaits of a handler: its memory is lost, the
\* database closes its connection and rolls an open transaction back, and
\* whoever starts the engine again starts a new process.
Crash(p) ==
  /\ ~Idle(p)
  /\ run[p].crashes < MaxCrashes
  /\ eng' = [eng EXCEPT ![p] = EngInit]
  /\ run' = [run EXCEPT ![p] =
               [@ EXCEPT !.outcome = "crashed",
                         !.crashes = @ + 1,
                         !.unrecorded = IF eng[p].pc = "add_entry"
                                          THEN {CurrentScript(p).filename}
                                          ELSE {}]]
  /\ calls' = [calls EXCEPT ![p] = 0]
  /\ UNCHANGED <<dir, fsOps, tableExists, table, serial, effects>>

NextCrash == Handler(1) \/ Crash(1)

\* two engine processes on one database and one directory, no lock
ConcDirs == {DirOf({F1}), DirOf({F1, F2})}

InitConc ==
  /\ dir \in ConcDirs
  /\ fsOps = 0
  /\ \/ /\ tableExists = FALSE
        /\ table = {}
        /\ serial = 1
        /\ effects = NoEffects
     \/ /\ tableExists = TRUE
        /\ table = LegacyTable
        /\ serial = 2
        /\ effects = [NoEffects EXCEPT ![F1] = 1]
  /\ eng = [p \in Procs |-> EngInit]
  /\ run = [p \in Procs |-> RunInit]
  /\ calls = [p \in Procs |-> 0]

NextConc == \E p \in Procs : Handler(p)

SpecConc == InitConc /\ [][NextConc]_vars

\* one engine process that may die and be started again, same directory
SpecCrash == Init /\ [][NextCrash]_vars

(***************************** properties **********************************)
Range(s) == {s[i] : i \in 1..Len(s)}

\* rows the current run has added to the tracking table
NewRows(p) == table \ run[p].tableAtStart

\* the run of p got its script list from the directory
Discovered(p) ==
  /\ run[p].dirRead
  /\ run[p].outcome \notin {"DiscoveryFailed", "MalformedFilename"}

\* the ids of the scripts are exactly 1..N
IdsOneToN(s) ==
  /\ \A i, j \in 1..Len(s) : s[i].id = s[j].id => i = j
  /\ {s[i].id : i \in 1..Len(s)} = 1..Len(s)

C1_Pre(p) ==
  /\ Idle(p)
  /\ Discovered(p)
  /\ run[p].readyAtStart
  /\ run[p].tableAtStart = {Sentinel}
  /\ ~run[p].ioFail
  /\ IdsOneToN(eng[p].scripts)

C1_Post(p) ==
  LET s == eng[p].scripts
      N == Len(s)
  IN  /\ run[p].outcome = "ok"
      /\ Len(run[p].execLog) = N
      /\ \A i \in 1..N : \E x \in Range(s) : x.id = i /\ run[p].execLog[i] = x.filename
      /\ \A x \in Range(s) : effects[x.filename] = run[p].effectsAtStart[x.filename] + 1
      /\ Cardinality(table) = N + 1
      /\ Sentinel \in table
      /\ \A x \in Range(s) : \E r \in table : r.filename = x.filename /\ r.hash = x.hash

\* C1: a run over scripts with ids exactly 1..N, started ready on a table
\* holding only the sentinel and with no call failing, ends normally having
\* executed every body exactly once in ascending id order, and leaves N+1
\* rows: the sentinel and one row per script with its filename and hash.
C1_FreshRunAppliesAllInOrder == \A p \in Procs : C1_Pre(p) => C1_Post(p)

C1_Witness ==
  /\ C1_Pre(1)
  /\ C1_Post(1)
  /\ Len(eng[1].scripts) = 3
  /\ run[1].execLog = <<F1, F2, F3>>

\* every discovered script is recorded with its current fingerprint
HistoryComplete(p) ==
  /\ Discovered(p)
  /\ \A x \in Range(eng[p].scripts) :
       \E r \in run[p].tableAtStart :
         r.filename = x.filename /\ r.hash # NULL /\ r.hash = x.hash

\* C2: a run whose discovered scripts all have a record with the same
\* filename and an equal non-null fingerprint executes nothing and leaves
\* the tracking table and the database as they were.
C2_CompleteHistoryIsNoOp ==
  \A p \in Procs :
    HistoryComplete(p) =>
      /\ table = run[p].tableAtStart
      /\ effects = run[p].effectsAtStart
      /\ run[p].execLog = <<>>

C2_Witness ==
  /\ HistoryComplete(1)
  /\ Idle(1)
  /\ run[1].outcome = "ok"
  /\ run[1].histLoaded
  /\ Len(eng[1].scripts) >= 2
  /\ Cardinality(table) = Len(eng[1].scripts) + 1

\* an adjacent pair of the sorted scripts whose ids do not differ by one
HasGap(s) == \E i \in 1..(Len(s) - 1) : s[i + 1].id - s[i].id # 1

\* C3: a run whose sorted scripts contain a gap or a duplicate id aborts in
\* discovery: nothing is executed, the history is not even read and the
\* tracking table stays as it was.
C3_GapAbortsBeforeExecution ==
  \A p \in Procs :
    (Discovered(p) /\ HasGap(eng[p].scripts)) =>
      /\ Idle(p)
      /\ run[p].outcome = "SequenceGap"
      /\ ~run[p].histLoaded
      /\ run[p].execLog = <<>>
      /\ effects = run[p].effectsAtStart
      /\ table = run[p].tableAtStart

C3_Witness ==
  /\ Discovered(1)
  /\ HasGap(eng[1].scripts)
  /\ run[1].outcome = "SequenceGap"
  /\ run[1].readyAtStart
  /\ Cardinality(table) >= 2
  /\ \E i \in 1..Len(eng[1].scripts) : eng[1].scripts[i].id = 1

\* script i of the run has a stored, different fingerprint in the history
\* the run started from
Mismatch(p, i) ==
  \E r \in run[p].tableAtStart :
    /\ r.filename = eng[p].scripts[i].filename
    /\ r.hash # NULL
    /\ r.hash # eng[p].scripts[i].hash

\* C4: once the history is loaded, a script whose record holds a different
\* non-null fingerprint stops the run: the loop never passes it, the run
\* does not end normally, no script from it on is executed, every row
\* inserted by the run belongs to an earlier script, and the record keeps
\* its stored fingerprint.
C4_ModifiedScriptAbortsRun ==
  \A p \in Procs :
    \A i \in 1..Len(eng[p].scripts) :
      (Discovered(p) /\ Mismatch(p, i)) =>
        /\ eng[p].idx <= i
        /\ run[p].outcome # "ok"
        /\ \A j \in i..Len(eng[p].scripts) :
             eng[p].scripts[j].filename \notin Range(run[p].execLog)
        /\ \A r \in NewRows(p) :
             \E j \in 1..(i - 1) : eng[p].scripts[j].filename = r.filename
        /\ \E r \in table :
             /\ r.filename = eng[p].scripts[i].filename
             /\ r.hash # NULL
             /\ r.hash # eng[p].scripts[i].hash

C4_Witness ==
  /\ Idle(1)
  /\ run[1].outcome = "Modified"
  /\ eng[1].idx < Len(eng[1].scripts)
  /\ Mismatch(1, eng[1].idx)
  /\ ~Mismatch(1, Len(eng[1].scripts))
  /\ \A r \in table : r.filename # eng[1].scripts[Len(eng[1].scripts)].filename

\* C5: startMigration called on an engine that is not initialized fails
\* with NotInitialized: it reads no directory, loads no history, executes
\* nothing and writes nothing.
C5_NotInitializedRunsNothing ==
  \A p \in Procs :
    (run[p].outcome # "none" /\ ~run[p].readyAtStart) =>
      /\ Idle(p)
      /\ run[p].outcome = "NotInitialized"
      /\ ~run[p].dirRead
      /\ ~run[p].histLoaded
      /\ run[p].execLog = <<>>
      /\ eng[p].scripts = <<>>
      /\ effects = run[p].effectsAtStart
      /\ table = run[p].tableAtStart

\* the guard rejects the call after an init() that failed, with scripts to
\* apply in the directory
C5_Witness ==
  /\ run[1].outcome = "NotInitialized"
  /\ run[1].initFail = "create"
  /\ tableExists = FALSE
  /\ Present = {F1, F2}

\* C6: when init() has to create the tracking table and the creation or
\* the insert of the sentinel row fails, init() returns with the engine not
\* initialized.
C6_FailedBootstrapNotReady ==
  \A p \in Procs :
    (Idle(p) /\ run[p].initFail \in {"create", "sentinel"}) => ~eng[p].initialized

\* C7: an initialized engine always finds the sentinel row (id 0) in the
\* tracking table.
C7_ReadyImpliesSentinel ==
  \A p \in Procs :
    eng[p].initialized => (tableExists /\ \E r \in table : r.id = 0)

\* C8: execute and executeInTransaction return every failure as a result
\* and never raise to their caller.
C8_GatewayNeverRaises == \A p \in Procs : ~run[p].raised

\* C9: the engine holds a connection only between the connect of
\* executeInTransaction and its commit or rollback: none is held once the
\* call has returned or raised, so none at the start of a script, at a
\* record insert or between handlers.
C9_ConnectionReleased ==
  \A p \in Procs :
    eng[p].pc \notin {"tx_begin", "tx_stmt", "tx_commit", "tx_rollback"} =>
      eng[p].client = "none"

\* the connection is back in the pool after each exit path of
\* executeInTransaction: here a raised ROLLBACK failure after a failed
\* COMMIT
C9_Witness ==
  /\ Idle(1)
  /\ run[1].raised
  /\ run[1].txFailed # {}
  /\ run[1].execLog # <<>>
  /\ eng[1].client = "none"

\* C10: a script run by executeInTransaction whose START TRANSACTION,
\* statement or COMMIT failed goes to the ROLLBACK and ends the run as a
\* failed execution: the database keeps none of its effects and the tracking
\* table gets no row for it.
C10_TransactionalAllOrNothing ==
  \A p \in Procs :
    \A f \in run[p].txFailed :
      /\ eng[p].pc \in {"tx_rollback", "idle"}
      /\ Idle(p) => run[p].outcome = "ExecFailed"
      /\ effects[f] = run[p].effectsAtStart[f]
      /\ \A r \in NewRows(p) : r.filename # f

\* the statement ran, the COMMIT failed, the ROLLBACK succeeded, and an
\* earlier script of the same run stays applied
C10_Witness ==
  /\ Idle(1)
  /\ run[1].txFailed = {F3}
  /\ ~run[1].raised
  /\ run[1].execLog = <<F1, F2, F3>>
  /\ effects[F3] = 0
  /\ effects[F2] = 1
  /\ \E r \in table : r.filename = F2

\* script i of the run has a record without fingerprint in the history the
\* run started from
Legacy(p, i) ==
  \E r \in run[p].tableAtStart :
    r.filename = eng[p].scripts[i].filename /\ r.hash = NULL

\* the loop of the run has finished its pass for script i
Passed(p, i) ==
  /\ Discovered(p)
  /\ run[p].histLoaded
  /\ i \in 1..Len(eng[p].scripts)
  /\ eng[p].idx > i \/ (Idle(p) /\ run[p].outcome = "ok")

\* C11: after the pass for a script whose record had no fingerprint, the
\* body has not been executed, the record has the same id and filename and
\* now holds the script's fingerprint, and no row was inserted for it; the
\* run does not stop at that script.
C11_LegacyRecordBackfilled ==
  \A p \in Procs :
    \A i \in 1..Len(eng[p].scripts) :
      (Discovered(p) /\ run[p].histLoaded /\ Legacy(p, i)) =>
        /\ eng[p].scripts[i].filename \notin Range(run[p].execLog)
        /\ effects[eng[p].scripts[i].filename]
             = run[p].effectsAtStart[eng[p].scripts[i].filename]
        /\ \A r \in table :
             r.filename = eng[p].scripts[i].filename =>
               \E r0 \in run[p].tableAtStart :
                 r0.filename = r.filename /\ r0.id = r.id
        /\ (Idle(p) /\ eng[p].idx = i) => run[p].outcome = "ok"
        /\ Passed(p, i) =>
             \E r \in run[p].tableAtStart :
               /\ r.filename = eng[p].scripts[i].filename
               /\ [r EXCEPT !.hash = eng[p].scripts[i].hash] \in table

\* C12: no failure inside init or startMigration reaches the caller: the
\* handler has returned (the process is idle again) with the failure kept
\* in the readiness flag, the log and the persisted state only.
C12_HandlersNeverPropagate ==
  \A p \in Procs :
    /\ ~run[p].propagated
    /\ run[p].outcome \notin {"none", "running", "ok"} => Idle(p)
    /\ run[p].initFail \in {"exists", "create"} => ~eng[p].initialized

\* a run ended by an error that executeInTransaction raised
C12_Witness ==
  /\ Idle(1)
  /\ run[1].outcome = "ExecFailed"
  /\ run[1].raised
  /\ ~run[1].propagated

\* the part of the name before the first delimiter is a non-negative integer
IntegerPrefix(fn) ==
  /\ DelimiterIndex(fn) >= 1
  /\ \A i \in 1..DelimiterIndex(fn) : IsDigit(fn[i])

\* C13: discovery rejects every filename whose prefix is not a non-negative
\* integer: a run gets past discovery only when every listed name has an
\* integer prefix, and no script with another name is ever executed.
C13_NonIntegerPrefixRejected ==
  \A p \in Procs :
    /\ eng[p].pc = "load" => \A f \in Present : IntegerPrefix(f)
    /\ \A x \in Range(eng[p].scripts) : IntegerPrefix(x.filename)
    /\ \A f \in Range(run[p].execLog) : IntegerPrefix(f)

\* the state of a run in which the execution of a script has failed
C14_State(p) ==
  \A f \in run[p].failed :
    LET s == eng[p].scripts
        k == eng[p].idx
    IN  /\ s[k].filename = f
        /\ eng[p].pc \in {"tx_rollback", "idle"}
        /\ Idle(p) => run[p].outcome = "ExecFailed"
        /\ \A r \in NewRows(p) : r.filename # f
        /\ \A j \in (k + 1)..Len(s) :
             /\ s[j].filename \notin Range(run[p].execLog)
             /\ effects[s[j].filename] = run[p].effectsAtStart[s[j].filename]
             /\ \A r \in NewRows(p) : r.filename # s[j].filename
        /\ \A j \in 1..(k - 1) :
             s[j].filename \in Range(run[p].execLog) =>
               effects[s[j].filename] = run[p].effectsAtStart[s[j].filename] + 1

\* the steps that end a run on a failed execution undo nothing
C14_Step(p) ==
  (run[p].failed # {} \/ run'[p].failed # {}) =>
    /\ effects' = effects
    /\ table' = table

\* C14: when the execution of a script fails the run ends there as a failed
\* execution: no row is inserted for that script, no later script is
\* executed or recorded, and the scripts applied earlier in the run stay
\* applied with their rows, nothing being undone.
C14_FailedScriptAbortsRun ==
  /\ [](\A p \in Procs : C14_State(p))
  /\ [][\A p \in Procs : C14_Step(p)]_vars

\* the third script fails after two were applied and recorded
C14_Witness ==
  /\ Idle(1)
  /\ run[1].failed = {F3}
  /\ run[1].execLog = <<F1, F2>>
  /\ effects[F1] = 1 /\ effects[F2] = 1 /\ effects[F3] = 0
  /\ Cardinality(table) = 3

\* script i of the run has no record in the history the run started from
Missing(p, i) ==
  \A r \in run[p].tableAtStart : r.filename # eng[p].scripts[i].filename

MaxId(tbl) == CHOOSE n \in {r.id : r \in tbl} : \A r \in tbl : r.id <= n

\* the id the run expects of missing script i: one more than the id of the
\* missing script before it, or than the largest id of the history
ExpectedId(p, i) ==
  LET before == {j \in 1..(i - 1) : Missing(p, j)}
  IN  IF before = {} THEN MaxId(run[p].tableAtStart) + 1
      ELSE eng[p].scripts[CHOOSE j \in before : \A k \in before : k <= j].id + 1

\* C15: a script without a record is executed only when its id is the
\* last-applied id plus one (the largest id of the table at first, then the
\* id of each script the run applies); otherwise the run ends at it with
\* SequenceGap and executes neither it nor any later script.
C15_MissingScriptNeedsNextId ==
  \A p \in Procs :
    \A i \in 1..Len(eng[p].scripts) :
      (Discovered(p) /\ run[p].tableAtStart # {} /\ Missing(p, i)) =>
        /\ eng[p].scripts[i].filename \in Range(run[p].execLog) =>
             eng[p].scripts[i].id = ExpectedId(p, i)
        /\ eng[p].scripts[i].id # ExpectedId(p, i) =>
             /\ eng[p].idx <= i
             /\ \A j \in i..Len(eng[p].scripts) :
                  eng[p].scripts[j].filename \notin Range(run[p].execLog)
             /\ Idle(p) => run[p].outcome # "ok"
             /\ (Idle(p) /\ eng[p].idx = i) => run[p].outcome = "SequenceGap"

\* the run stops at a script whose id is not the next one of a history that
\* holds applied scripts
C15_Witness ==
  /\ Idle(1)
  /\ run[1].outcome = "SequenceGap"
  /\ run[1].histLoaded
  /\ eng[1].idx >= 1
  /\ Missing(1, eng[1].idx)
  /\ eng[1].scripts[eng[1].idx].id # ExpectedId(1, eng[1].idx)
  /\ Cardinality(run[1].tableAtStart) >= 2

\* the body begins with the marker line
StartsWithMarker(data) == Len(data) >= 1 /\ Head(data) = AUTOCOMMIT

InTransactionPath(p) ==
  eng[p].pc \in {"tx_connect", "tx_begin", "tx_stmt", "tx_commit", "tx_rollback"}

C16_State(p) ==
  /\ eng[p].pc = "exec_auto" =>
       /\ StartsWithMarker(CurrentScript(p).data)
       /\ eng[p].client = "none"
  /\ InTransactionPath(p) => ~StartsWithMarker(CurrentScript(p).data)
  /\ eng[p].pc \in {"tx_begin", "tx_stmt", "tx_commit", "tx_rollback"} =>
       eng[p].client = "held"

\* a step that runs a body, and a step that makes its effects durable
C16_Step(p) ==
  /\ Len(run'[p].execLog) > Len(run[p].execLog) =>
       IF StartsWithMarker(CurrentScript(p).data)
         THEN eng[p].pc = "exec_auto" /\ eng[p].client = "none"
         ELSE /\ eng[p].pc = "tx_stmt"
              /\ eng[p].client = "held"
              /\ eng'[p].pc = "tx_commit"
              /\ effects' = effects
  /\ effects' # effects =>
       IF StartsWithMarker(CurrentScript(p).data)
         THEN eng[p].pc = "exec_auto"
         ELSE eng[p].pc = "tx_commit" /\ eng[p].client = "held"
  /\ (InTransactionPath(p) /\ eng[p].pc # "tx_connect" /\ (~InTransactionPath(p))') =>
       eng[p].pc \in {"tx_commit", "tx_rollback"}

\* C16: a body that starts with '--AUTOCOMMIT' is executed by execute, on no
\* dedicated connection; every other body is executed by
\* executeInTransaction: on one held connection, after START TRANSACTION,
\* and the path is left only through COMMIT or ROLLBACK.
C16_MarkerChoosesPath ==
  /\ [](\A p \in Procs : C16_State(p))
  /\ [][\A p \in Procs : eng'[p] # eng[p] => C16_Step(p)]_vars

\* one run has executed a marked script and an unmarked one
C16_Witness ==
  /\ Idle(1)
  /\ \E i, j \in 1..Len(eng[1].scripts) :
       /\ StartsWithMarker(eng[1].scripts[i].data)
       /\ ~StartsWithMarker(eng[1].scripts[j].data)
       /\ eng[1].scripts[j].data # Absent
       /\ {eng[1].scripts[i].filename, eng[1].scripts[j].filename}
            \subseteq Range(run[1].execLog)

\* C17: when a run has ended, every script whose body it executed
\* successfully has a record with its filename and fingerprint.
C17_ExecutedScriptsRecorded ==
  \A p \in Procs :
    (Idle(p) /\ Discovered(p)) =>
      \A i \in 1..Len(eng[p].scripts) :
        LET s == eng[p].scripts[i]
        IN  (/\ s.filename \in Range(run[p].execLog)
             /\ effects[s.filename] > run[p].effectsAtStart[s.filename]) =>
              \E r \in table : r.filename = s.filename /\ r.hash = s.hash

\* C18: a process that dies between the commit of a script and the insert
\* of its record leaves the script applied and without record; the next
\* init + startMigration of the restarted engine (its first two handler
\* calls) over the same directory, when no call fails, executes the body
\* once more.
C18_CrashAfterCommitReapplies ==
  \A p \in Procs :
    \A f \in run[p].unrecorded :
      /\ run[p].outcome = "crashed" =>
           /\ effects[f] >= 1
           /\ \A r \in table : r.filename # f
      /\ (/\ Idle(p)
          /\ calls[p] = 2
          /\ run[p].outcome \notin {"none", "crashed"}
          /\ run[p].readyAtStart
          /\ ~run[p].ioFail
          /\ \A r \in run[p].tableAtStart : r.filename # f) =>
           /\ run[p].outcome = "ok"
           /\ run[p].effectsAtStart[f] >= 1
           /\ f \in Range(run[p].execLog)
           /\ effects[f] = run[p].effectsAtStart[f] + 1

\* C19: with two engine processes on the same database and directory the
\* tracking table never holds two records with the same filename: the insert
\* of the process that comes second is rejected by UNIQUE (filename).
C19_NoDuplicateFilename ==
  \A r1, r2 \in table : r1.filename = r2.filename => r1 = r2

\* both processes started from the same history and executed the same
\* body; one record exists and the other insert failed
C19_Witness ==
  /\ Idle(1) /\ Idle(2)
  /\ run[1].tableAtStart = run[2].tableAtStart
  /\ \E f \in FileNames :
       /\ f \in Range(run[1].execLog)
       /\ f \in Range(run[2].execLog)
       /\ effects[f] = run[1].effectsAtStart[f] + 2
       /\ Cardinality({r \in table : r.filename = f}) = 1
       /\ \A r \in run[1].tableAtStart : r.filename # f
  /\ run[1].ioFail # run[2].ioFail

\* C20: no step deletes a record or changes a record's id or filename, and
\* a fingerprint that is not null is never overwritten: every record is
\* still there after the step, its fingerprint changed at most from null.
C20_RecordsOnlyGrow ==
  [][\A r \in table :
       \E r2 \in table' :
         /\ r2.id = r.id
         /\ r2.filename = r.filename
         /\ r.hash # NULL => r2.hash = r.hash]_vars

\* a history that got a fingerprint backfilled and a record added, next to
\* a record of an earlier run
C20_Witness ==
  /\ Idle(1)
  /\ \E r \in run[1].tableAtStart :
       /\ r.hash = NULL
       /\ r.filename # SentinelName
       /\ \E r2 \in table : r2.id = r.id /\ r2.filename = r.filename /\ r2.hash # NULL
  /\ \E r \in run[1].tableAtStart : r.hash # NULL
  /\ NewRows(1) # {}

\* the id createMigrationItem gives the script of that filename
ScriptIdOf(fn) == CreateMigrationItem(fn, <<>>).id

\* C21: every record other than the sentinel carries, as the id the database
\* assigned to it, the id of the script with the same filename.
C21_RecordIdIsScriptId ==
  \A r \in table : r.filename # SentinelName => r.id = ScriptIdOf(r.filename)

====
